---------------------------- MODULE Spec2Model ----------------------------
(***************************************************************************)
(* State-machine model of src/src/App.js: the "What? (Skills & Talents)"   *)
(* form.  The React state of the App component, its event handlers, its    *)
(* effects and the asynchronous continuations (auto-categorization retry   *)
(* loop, suggestion fetches, document loads) are the state and the actions.*)
(* Strings are TLA+ strings; startsWith / includes / trim / split are      *)
(* computed character by character as JavaScript computes them.            *)
(***************************************************************************)
EXTENDS Integers, Sequences, FiniteSets, TLC

(***************************************************************************)
(* JavaScript string and array primitives used by the component.           *)
(***************************************************************************)

\* String.prototype.startsWith
startsWith(s, p) == Len(s) >= Len(p) /\ SubSeq(s, 1, Len(p)) = p

\* String.prototype.includes (substring containment)
includes(s, p) ==
    \E i \in 1..(Len(s) - Len(p) + 1) : SubSeq(s, i, i + Len(p) - 1) = p

RECURSIVE trimStart(_)
trimStart(s) ==
    IF Len(s) > 0 /\ SubSeq(s, 1, 1) = " "
    THEN trimStart(SubSeq(s, 2, Len(s))) ELSE s

RECURSIVE trimEnd(_)
trimEnd(s) ==
    IF Len(s) > 0 /\ SubSeq(s, Len(s), Len(s)) = " "
    THEN trimEnd(SubSeq(s, 1, Len(s) - 1)) ELSE s

\* String.prototype.trim
trim(s) == trimEnd(trimStart(s))

\* text.split(','): the pieces between the commas, empty pieces included
RECURSIVE splitComma(_, _)
splitComma(s, piece) ==
    IF Len(s) = 0 THEN <<piece>>
    ELSE IF SubSeq(s, 1, 1) = ","
         THEN <<piece>> \o splitComma(SubSeq(s, 2, Len(s)), "")
         ELSE splitComma(SubSeq(s, 2, Len(s)), piece \o SubSeq(s, 1, 1))

\* Array.prototype.map(s => s.trim())
RECURSIVE mapTrim(_)
mapTrim(xs) ==
    IF xs = <<>> THEN <<>> ELSE <<trim(Head(xs))>> \o mapTrim(Tail(xs))

\* Array.prototype.includes
arrayIncludes(xs, x) == \E i \in 1..Len(xs) : xs[i] = x

\* Array.prototype.filter(c => c !== x)
filterOut(xs, x) == SelectSeq(xs, LAMBDA c : c # x)

\* number of occurrences of x in the array xs
Count(xs, x) == Cardinality({i \in 1..Len(xs) : xs[i] = x})

\* Array.from(new Set(xs)): first occurrences, in order
RECURSIVE dedup(_)
dedup(xs) ==
    IF xs = <<>> THEN <<>>
    ELSE LET r == dedup(SubSeq(xs, 1, Len(xs) - 1))
             x == xs[Len(xs)]
         IN  IF arrayIncludes(r, x) THEN r ELSE Append(r, x)

\* text.split(',').map(s => s.trim()).filter(s => s.length > 0)
parseList(text) == SelectSeq(mapTrim(splitComma(text, "")), LAMBDA s : Len(s) > 0)

(***************************************************************************)
(* JavaScript objects used as maps: a function on a finite set of keys.    *)
(***************************************************************************)
EmptyMap == [k \in {} |-> <<>>]

\* { ...m, [k]: v }
MapSet(m, k, v) == [x \in (DOMAIN m) \cup {k} |-> IF x = k THEN v ELSE m[x]]

\* delete m[k]
MapDel(m, k) == [x \in (DOMAIN m) \ {k} |-> m[x]]

\* m[k] || {}   and   m?.[k]
MapGet(m, k) == IF k \in DOMAIN m THEN m[k] ELSE EmptyMap


(***************************************************************************)
(* Program constants.                                                      *)
(***************************************************************************)
\* const broadCategories = [...]
broadCategories ==
    << "Creative & Design", "Tech & Digital", "Business & Professional",
       "Services & Personal Care", "Manual & Trades", "Education & Health",
       "Food & Hospitality" >>

isStandard(c) == arrayIncludes(broadCategories, c)

CustomPrefix == "Other_Custom_"
AutoPrefix == "Other_Auto_"
AutoUncategorized == "Other_Auto_Uncategorized"

\* broadCat.startsWith('Other_Custom_') || broadCat.startsWith('Other_Auto_')
isNamespaced(c) == startsWith(c, CustomPrefix) \/ startsWith(c, AutoPrefix)

\* setTimeout(() => { saveSkills(); }, 500)
debounceDelay == 500
\* setTimeout(() => setSavingStatus(''), 2000)
statusClearDelay == 2000

\* const maxAttempts = 5;  const baseDelay = 1000;
maxAttempts == 5
baseDelay == 1000

\* a backoff that grows by baseDelay per attempt
backoffLinear(attempts) == baseDelay * attempts

\* baseDelay * Math.pow(2, attempts - 1), attempts already incremented
backoffDelay(attempts) == baseDelay * (2 ^ (attempts - 1))

(***************************************************************************)
(* Bounds of the model.                                                    *)
(***************************************************************************)
\* longest skill list an add may produce (binds only when adds race)
MaxSkills == 2
\* longest skill list of a store found hydrated
MaxLen == 1
\* longest skill list of a store found with repeated skills
MaxRepeat == 3
\* setDoc calls in flight
MaxWrites == 1
\* getDoc calls in flight
MaxLoads == 2
\* calls of the suggestion service in flight
MaxTasks == 1
\* status-clearing timers pending
MaxClears == 2
\* listener notifications the notification counter distinguishes
MaxNotified == 2
\* completed document loads the load counter distinguishes
MaxHydrations == 2

(***************************************************************************)
(* Pure store computations.                                                *)
(***************************************************************************)
\* cleanedSubCats of saveSkills: the sub-categories that have skills
cleanedSubCats(subCats) ==
    [s \in {x \in DOMAIN subCats : Len(subCats[x]) > 0} |-> subCats[s]]

\* a save that sends the store as it is
cleanedSkillsNoPrune(skillsByCategory) == skillsByCategory

\* cleanedSkills of saveSkills: the payload handed to setDoc
cleanedSkills(skillsByCategory) ==
    [b \in {x \in DOMAIN skillsByCategory :
                DOMAIN cleanedSubCats(skillsByCategory[x]) # {}}
        |-> cleanedSubCats(skillsByCategory[b])]

\* skillsByCategory[b]?.[s] || []
skillList(m, b, s) ==
    IF b \in DOMAIN m /\ s \in DOMAIN m[b] THEN m[b][s] ELSE <<>>

\* an updater that puts the skill in front of the list
prependSkill(prev, b, s, skill) ==
    MapSet(prev, b, MapSet(MapGet(prev, b), s, <<skill>> \o skillList(prev, b, s)))

\* the state updater of handleAddSkill: append skill to prev[b][s]
appendSkill(prev, b, s, skill) ==
    MapSet(prev, b, MapSet(MapGet(prev, b), s, Append(skillList(prev, b, s), skill)))

\* a filter that keeps the sub-category whose list it emptied
newBroadCatStateNoPrune(prev, b, s, skill) ==
    MapSet(prev[b], s, filterOut(prev[b][s], skill))

\* newBroadCatState of handleRemoveSkill, after the filter and the prune
newBroadCatState(prev, b, s, skill) ==
    LET filtered == filterOut(prev[b][s], skill)
    IN  IF Len(filtered) = 0 THEN MapDel(prev[b], s)
        ELSE MapSet(prev[b], s, filtered)

\* an updater that keeps a broad category left without sub-categories
removeKeepsEmptyBroad(prev, b, s, skill) ==
    MapSet(prev, b, newBroadCatState(prev, b, s, skill))

\* the state updater of handleRemoveSkill
removeSkillState(prev, b, s, skill) ==
    IF DOMAIN newBroadCatState(prev, b, s, skill) = {}
    THEN MapDel(prev, b)
    ELSE MapSet(prev, b, newBroadCatState(prev, b, s, skill))

\* the keys handleBroadCategoryChange deletes when value is unchecked
cascadeKeys(prev, value) ==
    {value} \cup
    {key \in DOMAIN prev :
        \/ startsWith(key, CustomPrefix) /\ includes(key, "__" \o value)
        \/ startsWith(key, AutoPrefix) /\ includes(key, "__" \o value)}

\* an updater that deletes the unchecked key alone
uncheckKeepsCustom(prev, value) == MapDel(prev, value)

\* the state updater of handleBroadCategoryChange (unchecked)
uncheckState(prev, value) ==
    [key \in (DOMAIN prev) \ cascadeKeys(prev, value) |-> prev[key]]

(***************************************************************************)
(* State.                                                                  *)
(***************************************************************************)
VARIABLES
    \* React state of App (useState)
    isAuthReady,
    selectedBroadCategories,
    skillsByCategory,
    newSkillInput,
    activeBroadCategory,
    activeSubCategory,
    newCustomBroadCategory,
    suggestedSubCategories,
    suggestedSpecificSkills,
    loadingSubCategories,
    loadingSpecificSkills,
    loadingAutoCategorization,
    selectedSuggestedSkill,
    savingStatus,
    \* pending setTimeout(() => setSavingStatus(''), 2000) timers, oldest
    \* first; latest marks the timer of the write that ended last
    clearTimers,
    \* useRef
    isInitialMount,
    \* the handleAddSkill call suspended in its auto-categorization loop
    addTask,
    \* fetchSubCategories / fetchSpecificSkills calls in flight
    subTasks,
    skillTasks,
    \* dependencies the specific-skills effect last ran with
    skillDeps,
    \* the persisted document, getDoc calls in flight, an undelivered
    \* snapshot of the current listener, the debounce timer, setDoc calls
    \* in flight
    doc,
    loads,
    snapPending,
    timer,
    writes,
    \* history: the step just taken, the number of completed loads, and the
    \* number of listener notifications delivered since the last of them
    last,
    hydrations,
    notified

reactVars ==
    << isAuthReady, selectedBroadCategories, skillsByCategory, newSkillInput,
       activeBroadCategory, activeSubCategory, newCustomBroadCategory,
       loadingAutoCategorization, selectedSuggestedSkill >>
suggestVars ==
    << suggestedSubCategories, suggestedSpecificSkills, loadingSubCategories,
       loadingSpecificSkills, subTasks, skillTasks, skillDeps >>
persistVars ==
    << savingStatus, clearTimers, isInitialMount, doc, loads, snapPending,
       timer, writes, hydrations, notified >>
vars == << reactVars, suggestVars, persistVars, addTask, last >>

NoTask ==
    [ active |-> FALSE, skill |-> "", skills |-> EmptyMap, selected |-> <<>>,
      attempts |-> 0, pc |-> "idle", requests |-> 0, waits |-> <<>> ]

NoDoc == [ exists |-> FALSE, skills |-> EmptyMap ]

\* the step just taken: its name, the triple it addressed, how an add ended
\* ("added", "duplicate", "unresolved") or a notification was handled
\* ("applied", "suppressed") or which timer cleared the status ("own": the
\* one of the write that ended last, "earlier"), the keys the store had, whether "Other" was
\* selected and the list the triple addressed before it and, for a step of
\* the retry loop, the requests issued and the waits made by the call so far
Step(op, b, s, k, task) ==
    [ op |-> op, b |-> b, s |-> s, k |-> k, result |-> "",
      keys |-> DOMAIN skillsByCategory,
      other |-> arrayIncludes(selectedBroadCategories, "Other"),
      before |-> IF b \in DOMAIN skillsByCategory /\ s \in DOMAIN skillsByCategory[b]
                 THEN skillsByCategory[b][s] ELSE <<>>,
      requests |-> task.requests, waits |-> task.waits ]

(***************************************************************************)
(* Effects: React runs them after a render in which a dependency changed.  *)
(***************************************************************************)
\* useEffect(..., [isAuthReady, db, userId, selectedBroadCategories]):
\* unsubscribe, call loadSkills() (a getDoc that closes over the selection)
\* and subscribe again; the new listener gets an initial snapshot.
LoadEffect(ran) ==
    IF ran /\ isAuthReady
    THEN /\ Cardinality(loads \cup {selectedBroadCategories'}) <= MaxLoads
         /\ loads' = loads \cup {selectedBroadCategories'}
         /\ snapPending' = TRUE
    ELSE UNCHANGED << loads, snapPending >>

\* the timeout of the save effect: its delay and the skillsByCategory its
\* saveSkills closes over
saveTimer(closure) == [delay |-> debounceDelay, skills |-> closure]

\* a save effect whose cleanup does not clear the pending timeout
SaveEffectNoClear(ran) ==
    timer' = IF ran /\ ~isInitialMount /\ isAuthReady
             THEN Append(timer, saveTimer(skillsByCategory'))
             ELSE timer

\* useEffect(..., [skillsByCategory, isAuthReady, db, userId]): clear the
\* pending timer and set a new one (isInitialMount.current is false after
\* the mount)
SaveEffect(ran) ==
    timer' = IF ran /\ ~isInitialMount /\ isAuthReady
             THEN <<saveTimer(skillsByCategory')>>
             ELSE timer

(***************************************************************************)
(* What the JSX renders, which decides the events the user can raise.      *)
(***************************************************************************)
\* {selectedBroadCategories.length > 0 && ( ...section 2... )}
showSection2 == Len(selectedBroadCategories) > 0

\* the condition around the sub-category dropdown, the skill input and the
\* Add Skill button
showSkillEntry ==
    /\ showSection2
    /\ \/ activeBroadCategory # "" /\ activeBroadCategory # "Other"
       \/ activeBroadCategory = "Other" /\ trim(newCustomBroadCategory) # ""

\* the <option>s of the broad category dropdown
broadOptions ==
    {""} \cup
    {c \in {selectedBroadCategories[i] : i \in 1..Len(selectedBroadCategories)} :
        ~startsWith(c, CustomPrefix) /\ ~startsWith(c, AutoUncategorized)} \cup
    {c \in DOMAIN skillsByCategory :
        /\ startsWith(c, CustomPrefix) \/ startsWith(c, AutoUncategorized)
        /\ ~arrayIncludes(selectedBroadCategories, c)}

\* the skill chips of section 3: one remove button each
renderedSkills ==
    {t \in UNION {UNION {{<<b, s, skillsByCategory[b][s][i]>> :
                              i \in 1..Len(skillsByCategory[b][s])} :
                         s \in DOMAIN skillsByCategory[b]} :
                  b \in DOMAIN skillsByCategory} : TRUE}

(***************************************************************************)
(* Sign-in.                                                                *)
(***************************************************************************)
\* onAuthStateChanged callback with a user: both persistence effects run
OnAuthStateChanged ==
    /\ ~isAuthReady
    /\ isAuthReady' = TRUE
    /\ loads' = loads \cup {selectedBroadCategories}
    /\ snapPending' = TRUE
    /\ timer' = IF ~isInitialMount THEN <<saveTimer(skillsByCategory)>> ELSE timer
    /\ last' = Step("auth", "", "", "", NoTask)
    /\ UNCHANGED << selectedBroadCategories, skillsByCategory, newSkillInput,
                    activeBroadCategory, activeSubCategory,
                    newCustomBroadCategory, loadingAutoCategorization,
                    selectedSuggestedSkill, suggestVars, savingStatus, clearTimers,
                    isInitialMount, doc, writes, hydrations, notified, addTask >>

(***************************************************************************)
(* Handlers of the selection and of the input fields.                      *)
(***************************************************************************)
\* handleBroadCategoryChange: the check box of value is toggled
handleBroadCategoryChange(value) ==
    LET checked == ~arrayIncludes(selectedBroadCategories, value)
    IN  /\ selectedBroadCategories' =
               IF isStandard(value) \/ value = "Other"
               THEN IF checked THEN Append(selectedBroadCategories, value)
                    ELSE filterOut(selectedBroadCategories, value)
               ELSE selectedBroadCategories
        /\ LoadEffect(isStandard(value) \/ value = "Other")
        /\ IF ~checked
           THEN /\ skillsByCategory' = uncheckState(skillsByCategory, value)
                /\ SaveEffect(TRUE)
                /\ IF activeBroadCategory = value
                   THEN /\ activeBroadCategory' = ""
                        /\ activeSubCategory' = ""
                        /\ suggestedSubCategories' = <<>>
                        /\ suggestedSpecificSkills' = <<>>
                   ELSE UNCHANGED << activeBroadCategory, activeSubCategory,
                                     suggestedSubCategories,
                                     suggestedSpecificSkills >>
           ELSE /\ activeBroadCategory' = value
                /\ activeSubCategory' = ""
                /\ suggestedSpecificSkills' = <<>>
                /\ SaveEffect(FALSE)
                /\ UNCHANGED << skillsByCategory, suggestedSubCategories >>
        /\ last' = Step(IF checked THEN "check" ELSE "uncheck", value, "", "", NoTask)
        /\ UNCHANGED << isAuthReady, newSkillInput, newCustomBroadCategory,
                        loadingAutoCategorization, selectedSuggestedSkill,
                        loadingSubCategories, loadingSpecificSkills, subTasks,
                        skillTasks, skillDeps, savingStatus, clearTimers, isInitialMount,
                        doc, writes, hydrations, notified, addTask >>

\* handleActiveBroadCategoryChange: the broad category dropdown
handleActiveBroadCategoryChange(value) ==
    /\ showSection2
    /\ value \in broadOptions
    /\ activeBroadCategory' = value
    /\ activeSubCategory' = ""
    /\ newSkillInput' = ""
    /\ selectedSuggestedSkill' = ""
    /\ newCustomBroadCategory' = ""
    /\ last' = Step("activeBroad", value, "", "", NoTask)
    /\ UNCHANGED << isAuthReady, selectedBroadCategories, skillsByCategory,
                    loadingAutoCategorization, suggestVars, persistVars,
                    addTask >>

\* handleActiveSubCategoryChange: the sub-category dropdown
handleActiveSubCategoryChange(value) ==
    /\ showSkillEntry
    /\ activeSubCategory' = value
    /\ newSkillInput' = ""
    /\ selectedSuggestedSkill' = ""
    /\ last' = Step("activeSub", "", value, "", NoTask)
    /\ UNCHANGED << isAuthReady, selectedBroadCategories, skillsByCategory,
                    activeBroadCategory, newCustomBroadCategory,
                    loadingAutoCategorization, suggestVars, persistVars,
                    addTask >>

\* onChange of the skill input: setNewSkillInput(e.target.value)
setNewSkillInput(text) ==
    /\ showSkillEntry
    /\ newSkillInput' = text
    /\ last' = Step("typeSkill", "", "", text, NoTask)
    /\ UNCHANGED << isAuthReady, selectedBroadCategories, skillsByCategory,
                    activeBroadCategory, activeSubCategory,
                    newCustomBroadCategory, loadingAutoCategorization,
                    selectedSuggestedSkill, suggestVars, persistVars, addTask >>

\* onChange of the custom broad category input
setNewCustomBroadCategory(text) ==
    /\ showSection2
    /\ activeBroadCategory = "Other"
    /\ newCustomBroadCategory' = text
    /\ last' = Step("typeCustom", text, "", "", NoTask)
    /\ UNCHANGED << isAuthReady, selectedBroadCategories, skillsByCategory,
                    newSkillInput, activeBroadCategory, activeSubCategory,
                    loadingAutoCategorization, selectedSuggestedSkill,
                    suggestVars, persistVars, addTask >>

\* onChange of the suggested-skill dropdown
setSelectedSuggestedSkill(text) ==
    /\ showSkillEntry
    /\ activeSubCategory # ""
    /\ selectedSuggestedSkill' = text
    /\ last' = Step("pickSkill", "", "", text, NoTask)
    /\ UNCHANGED << isAuthReady, selectedBroadCategories, skillsByCategory,
                    newSkillInput, activeBroadCategory, activeSubCategory,
                    newCustomBroadCategory, loadingAutoCategorization,
                    suggestVars, persistVars, addTask >>

(***************************************************************************)
(* handleAddSkill.  The synchronous part runs in one step; a call that     *)
(* auto-categorizes is suspended at each await (the fetch, the backoff     *)
(* wait) and keeps the skillsByCategory / selectedBroadCategories of the   *)
(* render it was called in.                                                *)
(***************************************************************************)
\* let skillToAdd = ...
skillToAdd ==
    IF trim(newSkillInput) # "" THEN trim(newSkillInput)
    ELSE trim(selectedSuggestedSkill)

\* targetSubCategory after "if (!targetSubCategory) targetSubCategory = 'General'"
orGeneral(sub) == IF sub = "" THEN "General" ELSE sub

\* an add without the duplicate check
isDuplicateNever(closure, tb, ts, skill) == FALSE

\* skillsByCategory[targetBroadCategory]?.[targetSubCategory]?.includes(skillToAdd)
\* evaluated on the skillsByCategory the call closed over
isDuplicate(closure, tb, ts, skill) ==
    arrayIncludes(skillList(closure, tb, ts), skill)

\* how lines 469-486 decide the add
addResult(tb, ts, skill, closure) ==
    IF tb = "" THEN "unresolved"
    ELSE IF isDuplicate(closure, tb, orGeneral(ts), skill) THEN "duplicate"
    ELSE "added"

\* lines 469-497: the unresolved check, the duplicate check, the append and
\* the clearing of the inputs
AddCommit(tb, ts, skill, closure) ==
    LET rejected == addResult(tb, ts, skill, closure) # "added"
    IN  /\ rejected \/ Len(skillList(skillsByCategory, tb, orGeneral(ts))) < MaxSkills
        /\ skillsByCategory' =
               IF rejected THEN skillsByCategory
               ELSE appendSkill(skillsByCategory, tb, orGeneral(ts), skill)
        /\ SaveEffect(~rejected)
        /\ newSkillInput' = ""
        /\ selectedSuggestedSkill' = ""

\* handleAddSkill up to its first await, or to its end when it does not
\* auto-categorize
handleAddSkill ==
    LET custom == activeBroadCategory = "Other" /\ trim(newCustomBroadCategory) # ""
        tb == IF custom THEN CustomPrefix \o trim(newCustomBroadCategory)
              ELSE activeBroadCategory
        ts == IF custom THEN "General" ELSE activeSubCategory
        addSelected == custom /\ ~arrayIncludes(selectedBroadCategories, tb)
        auto == /\ tb = "" \/ ts = "" \/ tb = "Other"
                /\ trim(newSkillInput) # ""
                /\ ~loadingAutoCategorization
    IN  /\ showSkillEntry
        /\ IF skillToAdd = ""
           THEN /\ last' = Step("addEmpty", tb, ts, "", NoTask)
                /\ UNCHANGED << reactVars, persistVars, addTask >>
           ELSE /\ selectedBroadCategories' =
                       IF addSelected THEN Append(selectedBroadCategories, tb)
                       ELSE selectedBroadCategories
                /\ LoadEffect(addSelected)
                /\ IF auto
                   THEN /\ loadingAutoCategorization' = TRUE
                        /\ addTask' =
                               [ active |-> TRUE, skill |-> skillToAdd,
                                 skills |-> skillsByCategory,
                                 selected |-> selectedBroadCategories,
                                 attempts |-> 0, pc |-> "fetch",
                                 requests |-> 1, waits |-> <<>> ]
                        /\ SaveEffect(FALSE)
                        /\ last' = Step("addAuto", tb, ts, skillToAdd, NoTask)
                        /\ UNCHANGED << skillsByCategory, newSkillInput,
                                        selectedSuggestedSkill >>
                   ELSE /\ AddCommit(tb, ts, skillToAdd, skillsByCategory)
                        /\ last' = [Step("add", tb, orGeneral(ts), skillToAdd, NoTask)
                                       EXCEPT !.result = addResult(tb, ts, skillToAdd,
                                                                   skillsByCategory)]
                        /\ UNCHANGED << loadingAutoCategorization, addTask >>
                /\ UNCHANGED << isAuthReady, activeBroadCategory,
                                activeSubCategory, newCustomBroadCategory,
                                savingStatus, clearTimers, isInitialMount, doc, writes,
                                hydrations, notified >>
        /\ UNCHANGED suggestVars

\* the tail of a suspended call once its loop has ended with (tb, ts):
\* setLoadingAutoCategorization(false), then lines 469-497
AutoFinish(op, tb, ts, markSelected, mark) ==
    /\ selectedBroadCategories' =
           IF markSelected THEN Append(selectedBroadCategories, mark)
           ELSE selectedBroadCategories
    /\ LoadEffect(markSelected)
    /\ loadingAutoCategorization' = FALSE
    /\ AddCommit(tb, ts, addTask.skill, addTask.skills)
    /\ addTask' = NoTask
    /\ last' = [Step(op, tb, orGeneral(ts), addTask.skill, addTask)
                   EXCEPT !.result = addResult(tb, ts, addTask.skill, addTask.skills)]
    /\ UNCHANGED << isAuthReady, activeBroadCategory, activeSubCategory,
                    newCustomBroadCategory, savingStatus, clearTimers, isInitialMount, doc,
                    writes, hydrations, notified, suggestVars >>

\* the catch block with an attempt left: attempts++, then the wait of
\* baseDelay * 2^(attempts - 1) ms begins
failedAttempt(task) ==
    [task EXCEPT !.attempts = @ + 1, !.pc = "wait",
                 !.waits = Append(@, backoffDelay(task.attempts + 1))]

\* the wait is over: the while loop issues the next fetch
nextAttempt(task) == [task EXCEPT !.pc = "fetch", !.requests = @ + 1]

\* an attempt succeeds: response.ok, a candidate with text, JSON.parse gives
\* {broadCategory: bc, subCategory: sc}; lines 428-445
AutoCategorizeSuccess(bc, sc) ==
    /\ addTask.active /\ addTask.pc = "fetch"
    /\ IF bc = "Other"
       THEN AutoFinish("autoSuccess", AutoUncategorized, orGeneral(sc),
                       ~arrayIncludes(addTask.selected, "Other"), "Other")
       ELSE AutoFinish("autoSuccess", bc, sc,
                       ~arrayIncludes(addTask.selected, bc), bc)

\* an attempt fails (network error, non-2xx, no candidate, bad JSON) and
\* another one is left: lines 449-455
AutoCategorizeRetry ==
    /\ addTask.active /\ addTask.pc = "fetch"
    /\ addTask.attempts + 1 < maxAttempts
    /\ addTask' = failedAttempt(addTask)
    /\ last' = Step("autoRetry", "", "", addTask.skill, failedAttempt(addTask))
    /\ UNCHANGED << reactVars, suggestVars, persistVars >>

\* the backoff wait of a suspended call ends: the loop issues the next fetch
AutoCategorizeBackoffElapsed ==
    /\ addTask.active /\ addTask.pc = "wait"
    /\ addTask' = nextAttempt(addTask)
    /\ last' = Step("autoFetch", "", "", addTask.skill, nextAttempt(addTask))
    /\ UNCHANGED << reactVars, suggestVars, persistVars >>

\* the last attempt fails: lines 456-463, then the tail of the call
AutoCategorizeExhausted ==
    /\ addTask.active /\ addTask.pc = "fetch"
    /\ addTask.attempts + 1 = maxAttempts
    /\ AutoFinish("autoExhausted", AutoUncategorized, "General",
                  ~arrayIncludes(addTask.selected, "Other"), "Other")

(***************************************************************************)
(* handleRemoveSkill: the remove button of a rendered skill chip.          *)
(***************************************************************************)
handleRemoveSkill(b, s, skill) ==
    LET emptied == DOMAIN newBroadCatState(skillsByCategory, b, s, skill) = {}
    IN  /\ <<b, s, skill>> \in renderedSkills
        /\ skillsByCategory' = removeSkillState(skillsByCategory, b, s, skill)
        /\ SaveEffect(TRUE)
        /\ selectedBroadCategories' =
               IF emptied /\ isNamespaced(b)
               THEN SelectSeq(selectedBroadCategories,
                              LAMBDA c : c # b /\ c # "Other")
               ELSE IF emptied /\ isStandard(b)
               THEN filterOut(selectedBroadCategories, b)
               ELSE selectedBroadCategories
        /\ LoadEffect(emptied /\ (isNamespaced(b) \/ isStandard(b)))
        /\ last' = Step("remove", b, s, skill, NoTask)
        /\ UNCHANGED << isAuthReady, newSkillInput, activeBroadCategory,
                        activeSubCategory, newCustomBroadCategory,
                        loadingAutoCategorization, selectedSuggestedSkill,
                        suggestVars, savingStatus, clearTimers, isInitialMount, doc, writes,
                        hydrations, notified, addTask >>

(***************************************************************************)
(* The persisted document: loadSkills and the onSnapshot listener.         *)
(***************************************************************************)
\* Object.keys(loadedData.skills): the model fixes one order per key set
RECURSIVE keysOf(_)
keysOf(S) ==
    IF S = {} THEN <<>>
    ELSE LET k == CHOOSE x \in S : TRUE IN <<k>> \o keysOf(S \ {k})

\* loadedBroadCategories of loadSkills, in insertion order; closure is the
\* selectedBroadCategories of the render whose effect issued the load
RECURSIVE loadedBroadCategories(_, _)
loadedBroadCategories(keys, closure) ==
    IF keys = <<>> THEN <<>>
    ELSE LET key == Head(keys)
             add == IF isStandard(key) THEN <<key>>
                    ELSE IF isNamespaced(key)
                    THEN <<"Other">> \o
                         (IF arrayIncludes(closure, key) THEN <<>> ELSE <<key>>)
                    ELSE <<>>
         IN  add \o loadedBroadCategories(Tail(keys), closure)

\* a merge that keeps the loaded categories alone
hydratedSelectionLoadedOnly(prev, keys, closure) ==
    dedup(loadedBroadCategories(keysOf(keys), closure))

\* Array.from(new Set([...prev, ...Array.from(loadedBroadCategories)]))
hydratedSelection(prev, keys, closure) ==
    dedup(prev \o loadedBroadCategories(keysOf(keys), closure))

\* a getDoc of loadSkills resolves: lines 103-127.  setSkillsByCategory and
\* setSelectedBroadCategories make both persistence effects run again.
LoadSkillsDone(closure) ==
    /\ closure \in loads
    /\ IF doc.exists
       THEN /\ skillsByCategory' = doc.skills
            /\ selectedBroadCategories' =
                   hydratedSelection(selectedBroadCategories, DOMAIN doc.skills,
                                     closure)
            /\ loads' = (loads \ {closure}) \cup {selectedBroadCategories'}
            /\ snapPending' = TRUE
            /\ timer' = IF ~isInitialMount THEN <<saveTimer(skillsByCategory')>>
                        ELSE timer
            /\ hydrations' = IF hydrations < MaxHydrations
                             THEN hydrations + 1 ELSE hydrations
            /\ notified' = 0
       ELSE /\ loads' = loads \ {closure}
            /\ UNCHANGED << skillsByCategory, selectedBroadCategories,
                            snapPending, timer, hydrations, notified >>
    /\ last' = Step("load", "", "", "", NoTask)
    /\ UNCHANGED << isAuthReady, newSkillInput, activeBroadCategory,
                    activeSubCategory, newCustomBroadCategory,
                    loadingAutoCategorization, selectedSuggestedSkill,
                    suggestVars, savingStatus, clearTimers, isInitialMount, doc, writes,
                    addTask >>

\* the onSnapshot callback: lines 136-141
OnSnapshot ==
    /\ snapPending
    /\ snapPending' = FALSE
    /\ IF doc.exists /\ ~isInitialMount
       THEN /\ skillsByCategory' = doc.skills
            /\ SaveEffect(TRUE)
       ELSE UNCHANGED << skillsByCategory, timer >>
    /\ notified' = IF notified < MaxNotified THEN notified + 1 ELSE notified
    /\ last' = [Step("snapshot", "", "", "", NoTask)
                   EXCEPT !.result = IF doc.exists /\ ~isInitialMount
                                     THEN "applied" ELSE "suppressed"]
    /\ UNCHANGED << isAuthReady, selectedBroadCategories, newSkillInput,
                    activeBroadCategory, activeSubCategory,
                    newCustomBroadCategory, loadingAutoCategorization,
                    selectedSuggestedSkill, suggestVars, savingStatus,
                    clearTimers, isInitialMount, doc, loads, writes,
                    hydrations, addTask >>

\* the debounce timer fires: saveSkills() up to its await; the payload of
\* setDoc(userSkillsDocRef, { skills: cleanedSkills }, { merge: true })
SaveTimerFired ==
    /\ timer # <<>>
    /\ Len(writes) < MaxWrites
    /\ timer' = Tail(timer)
    /\ savingStatus' = "Saving..."
    /\ writes' = Append(writes, cleanedSkills(Head(timer).skills))
    /\ last' = Step("save", "", "", "", NoTask)
    /\ UNCHANGED << reactVars, suggestVars, isInitialMount, doc, loads,
                    snapPending, hydrations, notified, clearTimers, addTask >>

\* the sub-categories of a stored broad category after a merge write
mergeSubCats(stored, written) ==
    [s \in DOMAIN stored \cup DOMAIN written |->
        IF s \in DOMAIN written THEN written[s] ELSE stored[s]]

\* the skills field after setDoc(ref, {skills: payload}, {merge: true}): an
\* empty map replaces the field; otherwise each written list replaces the
\* stored list of its path and every other stored path stays
mergeSkills(stored, payload) ==
    IF payload = EmptyMap THEN EmptyMap
    ELSE [b \in DOMAIN stored \cup DOMAIN payload |->
             IF b \notin DOMAIN payload THEN stored[b]
             ELSE mergeSubCats(MapGet(stored, b), payload[b])]

\* setTimeout(() => setSavingStatus(''), 2000) of the write that just ended:
\* the timers of earlier writes are still pending and expire first
scheduleClear(timers) ==
    Append([i \in 1..Len(timers) |-> [timers[i] EXCEPT !.latest = FALSE]],
           [delay |-> statusClearDelay, latest |-> TRUE])

\* the setDoc of the oldest saveSkills call resolves: lines 183-184, 190.
\* The listener is notified of the changed document.
SetDocResolved ==
    /\ writes # <<>>
    /\ Len(clearTimers) < MaxClears
    /\ doc' = [exists |-> TRUE, skills |-> mergeSkills(doc.skills, Head(writes))]
    /\ snapPending' = TRUE
    /\ writes' = Tail(writes)
    /\ savingStatus' = "Saved!"
    /\ clearTimers' = scheduleClear(clearTimers)
    /\ last' = Step("saved", "", "", "", NoTask)
    /\ UNCHANGED << reactVars, suggestVars, isInitialMount, loads, timer,
                    hydrations, notified, addTask >>

\* the setDoc of the oldest saveSkills call rejects: lines 185-190
SetDocRejected ==
    /\ writes # <<>>
    /\ Len(clearTimers) < MaxClears
    /\ writes' = Tail(writes)
    /\ savingStatus' = "Save failed!"
    /\ clearTimers' = scheduleClear(clearTimers)
    /\ last' = Step("saveFailed", "", "", "", NoTask)
    /\ UNCHANGED << reactVars, suggestVars, isInitialMount, doc, loads,
                    snapPending, timer, hydrations, notified, addTask >>

\* the oldest timer of line 190 fires, statusClearDelay ms after its write
\* ended, and clears whatever status is shown
ClearSavingStatus ==
    /\ clearTimers # <<>>
    /\ clearTimers' = Tail(clearTimers)
    /\ savingStatus' = ""
    /\ last' = [Step("clearStatus", "", "", savingStatus, NoTask)
                   EXCEPT !.result = IF Head(clearTimers).latest
                                     THEN "own" ELSE "earlier"]
    /\ UNCHANGED << reactVars, suggestVars, isInitialMount, doc, loads,
                    snapPending, timer, writes, hydrations, notified, addTask >>

(***************************************************************************)
(* The suggestion effects.  A call in flight is a record of its arguments  *)
(* and of its position in the retry loop; calls in the same position with  *)
(* the same arguments are not told apart.                                  *)
(***************************************************************************)
\* calls suspended in a retry loop
inFlight ==
    Cardinality(subTasks) + Cardinality(skillTasks)
        + (IF addTask.active THEN 1 ELSE 0)

newTask(cat, sub) ==
    [ cat |-> cat, sub |-> sub, attempts |-> 0, pc |-> "fetch",
      requests |-> 1, waits |-> <<>> ]

\* a fetchSubCategories that asks for the sub-categories of "Other" as well
fetchSubCategoriesOfOther ==
    /\ IF activeBroadCategory = ""
       THEN /\ suggestedSubCategories' = <<>>
            /\ UNCHANGED << loadingSubCategories, subTasks >>
       ELSE /\ inFlight < MaxTasks
            /\ loadingSubCategories' = TRUE
            /\ subTasks' = subTasks \cup {newTask(activeBroadCategory, "")}
            /\ UNCHANGED suggestedSubCategories
    /\ last' = Step("fetchSub", activeBroadCategory, "", "", NoTask)
    /\ UNCHANGED << reactVars, persistVars, addTask, suggestedSpecificSkills,
                    loadingSpecificSkills, skillTasks, skillDeps >>

\* useEffect(..., [activeBroadCategory, broadCategories]): broadCategories is
\* a new array in every render, so the effect runs after every render, its
\* own included; fetchSubCategories(activeBroadCategory) up to its first await
fetchSubCategories ==
    /\ IF activeBroadCategory = "" \/ activeBroadCategory = "Other"
       THEN /\ suggestedSubCategories' = <<>>
            /\ UNCHANGED << loadingSubCategories, subTasks >>
       ELSE /\ inFlight < MaxTasks
            /\ loadingSubCategories' = TRUE
            /\ subTasks' = subTasks \cup {newTask(activeBroadCategory, "")}
            /\ UNCHANGED suggestedSubCategories
    /\ last' = Step("fetchSub", activeBroadCategory, "", "", NoTask)
    /\ UNCHANGED << reactVars, persistVars, addTask, suggestedSpecificSkills,
                    loadingSpecificSkills, skillTasks, skillDeps >>

\* a success whose response is dropped when its category is no longer the
\* active one
SubCategoriesSuccessIfActive(task, text) ==
    /\ task \in subTasks /\ task.pc = "fetch"
    /\ suggestedSubCategories' =
           IF task.cat = activeBroadCategory THEN parseList(text)
           ELSE suggestedSubCategories
    /\ loadingSubCategories' = FALSE
    /\ subTasks' = subTasks \ {task}
    /\ last' = Step("subSuccess", task.cat, "", text, task)
    /\ UNCHANGED << reactVars, persistVars, addTask, suggestedSpecificSkills,
                    loadingSpecificSkills, skillTasks, skillDeps >>

\* a success that also files the suggested sub-categories in the store
SubCategoriesSuccessStored(task, text) ==
    /\ task \in subTasks /\ task.pc = "fetch"
    /\ suggestedSubCategories' = parseList(text)
    /\ skillsByCategory' =
           MapSet(skillsByCategory, task.cat,
                  [s \in {parseList(text)[i] : i \in 1..Len(parseList(text))} |-> <<>>])
    /\ loadingSubCategories' = FALSE
    /\ subTasks' = subTasks \ {task}
    /\ last' = Step("subSuccess", task.cat, "", text, task)
    /\ UNCHANGED << isAuthReady, selectedBroadCategories, newSkillInput,
                    activeBroadCategory, activeSubCategory,
                    newCustomBroadCategory, loadingAutoCategorization,
                    selectedSuggestedSkill, persistVars, addTask,
                    suggestedSpecificSkills, loadingSpecificSkills, skillTasks,
                    skillDeps >>

\* a fetchSubCategories attempt succeeds with text: lines 233-237, 251
SubCategoriesSuccess(task, text) ==
    /\ task \in subTasks /\ task.pc = "fetch"
    /\ suggestedSubCategories' = parseList(text)
    /\ loadingSubCategories' = FALSE
    /\ subTasks' = subTasks \ {task}
    /\ last' = Step("subSuccess", task.cat, "", text, task)
    /\ UNCHANGED << reactVars, persistVars, addTask, suggestedSpecificSkills,
                    loadingSpecificSkills, skillTasks, skillDeps >>

\* a fetchSubCategories attempt fails and another one is left: lines 241-248
SubCategoriesRetry(task) ==
    /\ task \in subTasks /\ task.pc = "fetch"
    /\ task.attempts + 1 < maxAttempts
    /\ subTasks' = (subTasks \ {task}) \cup {failedAttempt(task)}
    /\ last' = Step("subRetry", task.cat, "", "", failedAttempt(task))
    /\ UNCHANGED << reactVars, persistVars, addTask, suggestedSubCategories,
                    suggestedSpecificSkills, loadingSubCategories,
                    loadingSpecificSkills, skillTasks, skillDeps >>

\* the backoff wait of a fetchSubCategories call ends
SubCategoriesBackoffElapsed(task) ==
    /\ task \in subTasks /\ task.pc = "wait"
    /\ subTasks' = (subTasks \ {task}) \cup {nextAttempt(task)}
    /\ last' = Step("subFetch", task.cat, "", "", nextAttempt(task))
    /\ UNCHANGED << reactVars, persistVars, addTask, suggestedSubCategories,
                    suggestedSpecificSkills, loadingSubCategories,
                    loadingSpecificSkills, skillTasks, skillDeps >>

\* an end of the loop that waits once more after the last failure
SubCategoriesExhaustedAfterWait(task) ==
    /\ task \in subTasks /\ task.pc = "fetch"
    /\ task.attempts + 1 = maxAttempts
    /\ loadingSubCategories' = FALSE
    /\ subTasks' = subTasks \ {task}
    /\ last' = Step("subExhausted", task.cat, "", "", failedAttempt(task))
    /\ UNCHANGED << reactVars, persistVars, addTask, suggestedSubCategories,
                    suggestedSpecificSkills, loadingSpecificSkills, skillTasks,
                    skillDeps >>

\* the last fetchSubCategories attempt fails: the loop ends, line 251
SubCategoriesExhausted(task) ==
    /\ task \in subTasks /\ task.pc = "fetch"
    /\ task.attempts + 1 = maxAttempts
    /\ loadingSubCategories' = FALSE
    /\ subTasks' = subTasks \ {task}
    /\ last' = Step("subExhausted", task.cat, "", "",
                    [task EXCEPT !.attempts = @ + 1])
    /\ UNCHANGED << reactVars, persistVars, addTask, suggestedSubCategories,
                    suggestedSpecificSkills, loadingSpecificSkills, skillTasks,
                    skillDeps >>

\* useEffect(..., [activeBroadCategory, activeSubCategory]) after a render
\* that changed one of them; fetchSpecificSkills up to its first await
fetchSpecificSkills ==
    /\ skillDeps # <<activeBroadCategory, activeSubCategory>>
    /\ skillDeps' = <<activeBroadCategory, activeSubCategory>>
    /\ IF activeBroadCategory = "" \/ activeSubCategory = ""
          \/ activeBroadCategory = "Other"
       THEN /\ suggestedSpecificSkills' = <<>>
            /\ UNCHANGED << loadingSpecificSkills, skillTasks >>
       ELSE /\ inFlight < MaxTasks
            /\ loadingSpecificSkills' = TRUE
            /\ skillTasks' =
                   skillTasks \cup {newTask(activeBroadCategory, activeSubCategory)}
            /\ UNCHANGED suggestedSpecificSkills
    /\ last' = Step("fetchSkills", activeBroadCategory, activeSubCategory, "", NoTask)
    /\ UNCHANGED << reactVars, persistVars, addTask, suggestedSubCategories,
                    loadingSubCategories, subTasks >>

\* a fetchSpecificSkills attempt succeeds with text: lines 286-290, 304
SpecificSkillsSuccess(task, text) ==
    /\ task \in skillTasks /\ task.pc = "fetch"
    /\ suggestedSpecificSkills' = parseList(text)
    /\ loadingSpecificSkills' = FALSE
    /\ skillTasks' = skillTasks \ {task}
    /\ last' = Step("skillsSuccess", task.cat, task.sub, text, task)
    /\ UNCHANGED << reactVars, persistVars, addTask, suggestedSubCategories,
                    loadingSubCategories, subTasks, skillDeps >>

\* a fetchSpecificSkills attempt fails and another one is left: lines 294-301
SpecificSkillsRetry(task) ==
    /\ task \in skillTasks /\ task.pc = "fetch"
    /\ task.attempts + 1 < maxAttempts
    /\ skillTasks' = (skillTasks \ {task}) \cup {failedAttempt(task)}
    /\ last' = Step("skillsRetry", task.cat, task.sub, "", failedAttempt(task))
    /\ UNCHANGED << reactVars, persistVars, addTask, suggestedSubCategories,
                    suggestedSpecificSkills, loadingSubCategories,
                    loadingSpecificSkills, subTasks, skillDeps >>

\* the backoff wait of a fetchSpecificSkills call ends
SpecificSkillsBackoffElapsed(task) ==
    /\ task \in skillTasks /\ task.pc = "wait"
    /\ skillTasks' = (skillTasks \ {task}) \cup {nextAttempt(task)}
    /\ last' = Step("skillsFetch", task.cat, task.sub, "", nextAttempt(task))
    /\ UNCHANGED << reactVars, persistVars, addTask, suggestedSubCategories,
                    suggestedSpecificSkills, loadingSubCategories,
                    loadingSpecificSkills, subTasks, skillDeps >>

\* the last fetchSpecificSkills attempt fails: the loop ends, line 304
SpecificSkillsExhausted(task) ==
    /\ task \in skillTasks /\ task.pc = "fetch"
    /\ task.attempts + 1 = maxAttempts
    /\ loadingSpecificSkills' = FALSE
    /\ skillTasks' = skillTasks \ {task}
    /\ last' = Step("skillsExhausted", task.cat, task.sub, "",
                    [task EXCEPT !.attempts = @ + 1])
    /\ UNCHANGED << reactVars, persistVars, addTask, suggestedSubCategories,
                    suggestedSpecificSkills, loadingSubCategories, subTasks,
                    skillDeps >>

\* the <option>s of the sub-category dropdown, rendered when the list is
\* loaded and not empty
subCategoryOptions ==
    IF loadingSubCategories \/ Len(suggestedSubCategories) = 0 THEN {}
    ELSE {""} \cup {suggestedSubCategories[i] : i \in 1..Len(suggestedSubCategories)}

(***************************************************************************)
(* Initial state: the component after its mount (the effects have run      *)
(* once, nobody is signed in).                                             *)
(***************************************************************************)
InitReact ==
    /\ isAuthReady = FALSE
    /\ selectedBroadCategories = <<>>
    /\ skillsByCategory = EmptyMap
    /\ newSkillInput = ""
    /\ activeBroadCategory = ""
    /\ activeSubCategory = ""
    /\ newCustomBroadCategory = ""
    /\ loadingAutoCategorization = FALSE
    /\ selectedSuggestedSkill = ""
    /\ addTask = NoTask

InitSuggest ==
    /\ suggestedSubCategories = <<>>
    /\ suggestedSpecificSkills = <<>>
    /\ loadingSubCategories = FALSE
    /\ loadingSpecificSkills = FALSE
    /\ subTasks = {}
    /\ skillTasks = {}
    /\ skillDeps = <<"", "">>

InitPersist ==
    /\ savingStatus = ""
    /\ clearTimers = <<>>
    /\ notified = 0
    /\ isInitialMount = FALSE
    /\ doc = NoDoc
    /\ loads = {}
    /\ snapPending = FALSE
    /\ timer = <<>>
    /\ writes = <<>>
    /\ hydrations = 0

Init ==
    /\ InitReact
    /\ InitSuggest
    /\ InitPersist
    /\ last = Step("init", "", "", "", NoTask)

(***************************************************************************)
(* Spec: manual categorisation.  The user checks categories, picks the     *)
(* active category and sub-category, types or picks a skill, names custom  *)
(* categories, adds and removes skills; a skill is added only with a       *)
(* sub-category chosen or under "Other", so no call auto-categorizes.      *)
(* The suggestion effects are left out (no handler of the store reads      *)
(* their state): the dropdowns offer the texts below.                      *)
(* Nobody signs in (Firebase is not configured), so nothing is persisted.  *)
(***************************************************************************)
Checkboxes == {"Creative & Design", "Other"}
SubCategoryTexts == {"Music Production"}
SkillTexts == {" Songwriting "}
SuggestedSkillTexts == {"Mixing"}
CustomTexts == {"Specialized Consulting__Creative & Design"}

Next ==
    \/ \E value \in Checkboxes : handleBroadCategoryChange(value)
    \/ \E value \in broadOptions : handleActiveBroadCategoryChange(value)
    \/ \E value \in SubCategoryTexts \cup {""} : handleActiveSubCategoryChange(value)
    \/ \E text \in SkillTexts \cup {""} : setNewSkillInput(text)
    \/ \E text \in CustomTexts \cup {""} : setNewCustomBroadCategory(text)
    \/ \E text \in SuggestedSkillTexts \cup {""} : setSelectedSuggestedSkill(text)
    \/ (activeBroadCategory = "Other" \/ activeSubCategory # "") /\ handleAddSkill
    \/ \E t \in renderedSkills : handleRemoveSkill(t[1], t[2], t[3])

Spec == Init /\ [][Next]_vars

(***************************************************************************)
(* SpecQualifier: the manual session when the custom category the user     *)
(* types names, after "__", something longer than a standard category.     *)
(***************************************************************************)
QualifierTexts == {"Consulting__Creative & Design Studio"}

NextQualifier ==
    \/ \E value \in Checkboxes : handleBroadCategoryChange(value)
    \/ \E value \in broadOptions : handleActiveBroadCategoryChange(value)
    \/ \E text \in SkillTexts \cup {""} : setNewSkillInput(text)
    \/ \E text \in QualifierTexts \cup {""} : setNewCustomBroadCategory(text)
    \/ activeBroadCategory = "Other" /\ handleAddSkill
    \/ \E t \in renderedSkills : handleRemoveSkill(t[1], t[2], t[3])

SpecQualifier == Init /\ [][NextQualifier]_vars

(***************************************************************************)
(* SpecAuto: auto-categorisation.  The user types a skill without a        *)
(* sub-category; the call is suspended in its retry loop while the user    *)
(* goes on checking, picking, typing, adding and removing.                 *)
(***************************************************************************)
AutoCheckboxes == {"Creative & Design"}
AutoSkillTexts == {" Songwriting "}
\* broadCategory / subCategory of a parsed response
RespBroad == {"Creative & Design"}
RespSub == {"Music Production"}

NextAuto ==
    \/ \E value \in AutoCheckboxes : handleBroadCategoryChange(value)
    \/ \E value \in SubCategoryTexts \cup {""} : handleActiveSubCategoryChange(value)
    \/ \E text \in AutoSkillTexts \cup {""} : setNewSkillInput(text)
    \/ handleAddSkill
    \/ \E bc \in RespBroad, sc \in RespSub : AutoCategorizeSuccess(bc, sc)
    \/ AutoCategorizeRetry
    \/ AutoCategorizeBackoffElapsed
    \/ AutoCategorizeExhausted
    \/ \E t \in renderedSkills : handleRemoveSkill(t[1], t[2], t[3])

SpecAuto == Init /\ [][NextAuto]_vars

(***************************************************************************)
(* SpecResponse: what the auto-categorization answers.  The broadCategory  *)
(* of a response is any string (responseSchema: STRING): one of the list   *)
(* in the prompt, or one that is not.                                      *)
(***************************************************************************)
AutoRespBroad == {"Creative & Design", "Cooking"}

NextResponse ==
    \/ \E value \in AutoCheckboxes : handleBroadCategoryChange(value)
    \/ \E text \in AutoSkillTexts \cup {""} : setNewSkillInput(text)
    \/ handleAddSkill
    \/ \E bc \in AutoRespBroad, sc \in RespSub : AutoCategorizeSuccess(bc, sc)
    \/ AutoCategorizeRetry
    \/ AutoCategorizeBackoffElapsed
    \/ AutoCategorizeExhausted
    \/ \E t \in renderedSkills : handleRemoveSkill(t[1], t[2], t[3])

SpecResponse == Init /\ [][NextResponse]_vars

(***************************************************************************)
(* SpecStore: a signed-in session that found no document when it read, and *)
(* whose listener then delivered a document another session wrote (it may  *)
(* hold empty lists, empty sub-category maps and repeated skills).  The    *)
(* user removes skills; the debounced save fires.                          *)
(***************************************************************************)
StoreSkills == {"Songwriting", "Mixing"}

\* skill lists of at most n skills
RECURSIVE ListsUpTo(_)
ListsUpTo(n) ==
    IF n = 0 THEN {<<>>}
    ELSE LET shorter == ListsUpTo(n - 1)
         IN  shorter \cup {Append(l, x) : l \in shorter, x \in StoreSkills}

\* all maps from a subset of keys into values
MapsOver(keys, values) == UNION {[ks -> values] : ks \in SUBSET keys}

\* documents over one standard key and one custom key; the custom key has
\* the one sub-category an add gives it
HydratedStores ==
    { m \in MapsOver({"Creative & Design", "Other_Custom_Consulting"},
                     MapsOver({"Music Production", "General"},
                              ListsUpTo(MaxLen))) :
        "Other_Custom_Consulting" \in DOMAIN m =>
            DOMAIN m["Other_Custom_Consulting"] \subseteq {"General"} }

\* the session once the listener has delivered one of the documents
InitLive(stores) ==
    /\ skillsByCategory \in stores
    /\ isAuthReady = TRUE
    /\ selectedBroadCategories = <<>>
    /\ newSkillInput = ""
    /\ activeBroadCategory = ""
    /\ activeSubCategory = ""
    /\ newCustomBroadCategory = ""
    /\ loadingAutoCategorization = FALSE
    /\ selectedSuggestedSkill = ""
    /\ addTask = NoTask
    /\ InitSuggest
    /\ savingStatus = ""
    /\ clearTimers = <<>>
    /\ notified = 1
    /\ isInitialMount = FALSE
    /\ doc = [exists |-> TRUE, skills |-> skillsByCategory]
    /\ loads = {}
    /\ snapPending = FALSE
    /\ timer = <<saveTimer(skillsByCategory)>>
    /\ writes = <<>>
    /\ hydrations = 0
    /\ last = [Step("snapshot", "", "", "", NoTask) EXCEPT !.result = "applied"]

InitStore == InitLive(HydratedStores)

RemoveAny == \E t \in renderedSkills : handleRemoveSkill(t[1], t[2], t[3])

NextStore ==
    \/ RemoveAny
    \/ SaveTimerFired

\* a user who goes on removing removes every rendered skill
SpecStore == InitStore /\ [][NextStore]_vars /\ WF_vars(RemoveAny)

(***************************************************************************)
(* SpecRepeat: the session of SpecStore when the delivered document holds  *)
(* one list of up to MaxRepeat skills, in which a skill may be repeated.   *)
(***************************************************************************)
RepeatedStores ==
    { [b \in {"Creative & Design"} |-> [s \in {"Music Production"} |-> xs]] :
        xs \in ListsUpTo(MaxRepeat) \ {<<>>} }

InitRepeat == InitLive(RepeatedStores)

SpecRepeat == InitRepeat /\ [][NextStore]_vars

(***************************************************************************)
(* SpecSave: the session of SpecStore with one skill under a standard key  *)
(* and one under a custom key.  The user removes skills, the debounced     *)
(* save fires, its write succeeds or fails, the status is cleared and the  *)
(* listener delivers the written document.                                 *)
(***************************************************************************)
InitSave ==
    /\ InitStore
    /\ skillsByCategory =
           [b \in {"Creative & Design", "Other_Custom_Consulting"} |->
               IF b = "Creative & Design"
               THEN [s \in {"Music Production"} |-> <<"Songwriting">>]
               ELSE [s \in {"General"} |-> <<"Mixing">>]]

NextSave ==
    \/ RemoveAny
    \/ SaveTimerFired
    \/ SetDocResolved
    \/ SetDocRejected
    \/ ClearSavingStatus
    \/ OnSnapshot

SpecSave == InitSave /\ [][NextSave]_vars

(***************************************************************************)
(* SpecCycle: the session of SpecStore once the user has stopped.  Only    *)
(* the timers, the writes and the listener act: a pending timeout fires, a *)
(* setDoc in flight resolves, a pending notification is delivered.         *)
(***************************************************************************)
NextCycle ==
    \/ SaveTimerFired
    \/ SetDocResolved
    \/ ClearSavingStatus
    \/ OnSnapshot

SpecCycle ==
    /\ InitStore
    /\ [][NextCycle]_vars
    /\ WF_vars(SaveTimerFired)
    /\ WF_vars(SetDocResolved)
    /\ WF_vars(ClearSavingStatus)
    /\ WF_vars(OnSnapshot)

(***************************************************************************)
(* SpecSuggest: the three clients of the suggestion service.  The user     *)
(* checks categories and picks the active category and a sub-category the  *)
(* dropdown offers, and adds a typed skill without a sub-category; an      *)
(* event is handled once the specific-skills effect of the last render has *)
(* run, and the broad category dropdown is used while no call is in       *)
(* flight (the check boxes change the active category at any time).  Each  *)
(* request succeeds or fails.  SpecSuggest has one category to check,      *)
(* SpecSuggestTwo has two.                                                 *)
(***************************************************************************)
SubCategoryResponses == {" Music Production,, "}
SpecificSkillResponses == {"Songwriting , Mixing"}
SuggestSkillTexts == {"Songwriting"}

effectsFlushed == skillDeps = <<activeBroadCategory, activeSubCategory>>

NextSuggest(checkboxes) ==
    \/ effectsFlushed /\ \E value \in checkboxes : handleBroadCategoryChange(value)
    \/ effectsFlushed /\ inFlight = 0
         /\ \E value \in broadOptions : handleActiveBroadCategoryChange(value)
    \/ effectsFlushed /\ \E value \in subCategoryOptions : handleActiveSubCategoryChange(value)
    \/ effectsFlushed /\ activeSubCategory = "" /\ skillsByCategory = EmptyMap
         /\ \E text \in SuggestSkillTexts : setNewSkillInput(text)
    \/ effectsFlushed /\ activeSubCategory = "" /\ inFlight < MaxTasks
         /\ handleAddSkill
    \/ \E bc \in RespBroad, sc \in RespSub : AutoCategorizeSuccess(bc, sc)
    \/ AutoCategorizeRetry
    \/ AutoCategorizeBackoffElapsed
    \/ AutoCategorizeExhausted
    \/ fetchSubCategories
    \/ \E task \in subTasks, text \in SubCategoryResponses : SubCategoriesSuccess(task, text)
    \/ \E task \in subTasks : SubCategoriesRetry(task)
    \/ \E task \in subTasks : SubCategoriesBackoffElapsed(task)
    \/ \E task \in subTasks : SubCategoriesExhausted(task)
    \/ fetchSpecificSkills
    \/ \E task \in skillTasks, text \in SpecificSkillResponses : SpecificSkillsSuccess(task, text)
    \/ \E task \in skillTasks : SpecificSkillsRetry(task)
    \/ \E task \in skillTasks : SpecificSkillsBackoffElapsed(task)
    \/ \E task \in skillTasks : SpecificSkillsExhausted(task)

SpecSuggest == Init /\ [][NextSuggest({"Creative & Design"})]_vars

SpecSuggestTwo ==
    Init /\ [][NextSuggest({"Creative & Design", "Tech & Digital"})]_vars

(***************************************************************************)
(* SpecStale: the sub-category client alone, with two categories to check. *)
(* The user checks and unchecks while calls are in flight.                 *)
(***************************************************************************)
NextStale ==
    \/ effectsFlushed
         /\ \E value \in {"Creative & Design", "Tech & Digital"} :
                handleBroadCategoryChange(value)
    \/ fetchSubCategories
    \/ \E task \in subTasks, text \in SubCategoryResponses : SubCategoriesSuccess(task, text)
    \/ \E task \in subTasks : SubCategoriesRetry(task)
    \/ \E task \in subTasks : SubCategoriesBackoffElapsed(task)
    \/ \E task \in subTasks : SubCategoriesExhausted(task)
    \/ fetchSpecificSkills

SpecStale == Init /\ [][NextStale]_vars

(***************************************************************************)
(* SpecSession: a session that signs in.  The document is absent or holds  *)
(* the skills of an earlier session; the reads and the listener answer,    *)
(* the user checks and unchecks categories and removes skills, the         *)
(* debounced save fires.                                                   *)
(***************************************************************************)
StoredDocs ==
    { NoDoc,
      [ exists |-> TRUE,
        skills |-> [b \in {"Creative & Design"} |->
                       [s \in {"Music Production"} |-> <<"Songwriting">>]] ],
      [ exists |-> TRUE,
        skills |-> [b \in {"Other_Custom_Consulting",
                           "Other_Auto_Uncategorized"} |->
                       [s \in {"General"} |-> <<"Mixing">>]] ],
      [ exists |-> TRUE,
        skills |-> [b \in {"Creative & Design", "Business & Professional"} |->
                       IF b = "Creative & Design"
                       THEN [s \in {"Music Production"} |-> <<>>]
                       ELSE EmptyMap] ] }

SessionCheckboxes == {"Creative & Design"}

InitSession ==
    /\ InitReact
    /\ InitSuggest
    /\ savingStatus = ""
    /\ clearTimers = <<>>
    /\ notified = 0
    /\ isInitialMount = FALSE
    /\ doc \in StoredDocs
    /\ loads = {}
    /\ snapPending = FALSE
    /\ timer = <<>>
    /\ writes = <<>>
    /\ hydrations = 0
    /\ last = Step("init", "", "", "", NoTask)

NextSession ==
    \/ OnAuthStateChanged
    \/ \E closure \in loads : LoadSkillsDone(closure)
    \/ OnSnapshot
    \/ \E value \in SessionCheckboxes : handleBroadCategoryChange(value)
    \/ RemoveAny
    \/ SaveTimerFired

SpecSession == InitSession /\ [][NextSession]_vars

(***************************************************************************)
(* Properties of the store operations                                      *)
(***************************************************************************)
\* the map holds no empty skill list and no empty sub-category map
NoEmptyContainer(m) ==
    \A b \in DOMAIN m :
        /\ DOMAIN m[b] # {}
        /\ \A s \in DOMAIN m[b] : Len(m[b][s]) > 0

\* every non-empty list of the store is in the payload, unchanged
KeepsNonEmptyLists(store, payload) ==
    \A b \in DOMAIN store : \A s \in DOMAIN store[b] :
        Len(store[b][s]) > 0 =>
            /\ b \in DOMAIN payload
            /\ s \in DOMAIN payload[b]
            /\ payload[b][s] = store[b][s]

\* C1: the payload saveSkills hands to setDoc holds no sub-category with an
\* empty skill list and no broad category without sub-categories, and holds
\* every non-empty list of the store unchanged.
C1_SavePayloadPruned ==
    last.op = "save" =>
        /\ NoEmptyContainer(writes[Len(writes)])
        /\ KeepsNonEmptyLists(skillsByCategory, writes[Len(writes)])

\* a save of a store that holds an empty list, a broad category with no
\* sub-category and a non-empty list
C1_Witness ==
    /\ last.op = "save"
    /\ \E b \in DOMAIN skillsByCategory : DOMAIN skillsByCategory[b] = {}
    /\ \E b \in DOMAIN skillsByCategory : \E s \in DOMAIN skillsByCategory[b] :
           skillsByCategory[b][s] = <<>>
    /\ writes[Len(writes)] # EmptyMap

C2_AddTwiceOnce ==
    (last.op = "add" /\ last.result \in {"added", "duplicate"}) =>
        Count(skillList(skillsByCategory, last.b, last.s), last.k) = 1

\* the second add of a skill was rejected as a duplicate
C2_Witness ==
    /\ last.op = "add"
    /\ last.result = "duplicate"
    /\ last.k = "Songwriting"
    /\ arrayIncludes(skillList(skillsByCategory, last.b, last.s), "Songwriting")

\* the store after appending skill K to list S of broad category B
AppendedAtEnd(prev, next, B, S, K) ==
    /\ DOMAIN next = DOMAIN prev \cup {B}
    /\ \A b \in DOMAIN prev \ {B} : next[b] = prev[b]
    /\ DOMAIN next[B] = DOMAIN MapGet(prev, B) \cup {S}
    /\ \A s \in DOMAIN MapGet(prev, B) \ {S} : next[B][s] = prev[B][s]
    /\ next[B][S] = Append(skillList(prev, B, S), K)

\* C8: an add with a standard active broad category B, a non-empty active
\* sub-category S and a text whose trimmed form K is not in store[B][S]
\* appends K at the end of store[B][S], creating B and S when absent, and
\* changes no other entry; on the empty store with "Creative & Design",
\* "Music Production" and "Songwriting" the save payload is
\* {"Creative & Design": {"Music Production": ["Songwriting"]}}.
C8_AddAppendsAtEnd ==
    [][ ( /\ last'.op = "add"
          /\ isStandard(activeBroadCategory)
          /\ activeSubCategory # ""
          /\ ~arrayIncludes(skillList(skillsByCategory, activeBroadCategory,
                                      activeSubCategory), skillToAdd) )
        => /\ skillToAdd = trim(skillToAdd)
           /\ AppendedAtEnd(skillsByCategory, skillsByCategory',
                            activeBroadCategory, activeSubCategory, skillToAdd)
           /\ ( /\ skillsByCategory = EmptyMap
                /\ activeBroadCategory = "Creative & Design"
                /\ activeSubCategory = "Music Production"
                /\ skillToAdd = "Songwriting" )
              => cleanedSkills(skillsByCategory') =
                     [b \in {"Creative & Design"} |->
                         [s \in {"Music Production"} |-> <<"Songwriting">>]]
      ]_vars

\* "Songwriting", typed with blanks around it, was appended after "Mixing"
\* while another broad category was stored
C8_Witness ==
    /\ last.op = "add"
    /\ last.result = "added"
    /\ last.k = "Songwriting"
    /\ Cardinality(DOMAIN skillsByCategory) = 2
    /\ skillList(skillsByCategory, "Creative & Design", "Music Production")
           = <<"Mixing", "Songwriting">>

\* key embeds value as the qualifier "__value" of a custom or auto key
embedsQualifier(key, value) ==
    /\ startsWith(key, CustomPrefix) \/ startsWith(key, AutoPrefix)
    /\ includes(key, "__" \o value)

\* C9: unchecking broad category B removes from the store the key B and every
\* custom or auto key whose name embeds B as the qualifier "__B".
C9_UncheckCascades ==
    last.op = "uncheck" =>
        \A key \in last.keys :
            (key = last.b \/ embedsQualifier(key, last.b)) =>
                key \notin DOMAIN skillsByCategory

\* "Creative & Design" was unchecked while the store held that key and the
\* custom key "Other_Custom_Specialized Consulting__Creative & Design"
C9_Witness ==
    /\ last.op = "uncheck"
    /\ last.b = "Creative & Design"
    /\ last.keys = {"Creative & Design",
                    "Other_Custom_Specialized Consulting__Creative & Design"}
    /\ skillsByCategory = EmptyMap

(***************************************************************************)
(* Properties of the interleaved auto-categorisation (SpecAuto)            *)
(***************************************************************************)
\* C3: in every interleaving of adds (a suspended auto-categorizing add
\* included), removals and deselections, no skill list of the store holds
\* the same skill twice.
C3_NoDuplicateSkills ==
    \A b \in DOMAIN skillsByCategory : \A s \in DOMAIN skillsByCategory[b] :
        \A i, j \in 1..Len(skillsByCategory[b][s]) :
            skillsByCategory[b][s][i] = skillsByCategory[b][s][j] => i = j

\* C7: when the last attempt of an auto-categorizing add has failed, the
\* skill is stored under "Other_Auto_Uncategorized" / "General" and "Other"
\* is selected.
C7_ExhaustedStoresUncategorized ==
    last.op = "autoExhausted" =>
        /\ arrayIncludes(skillList(skillsByCategory, AutoUncategorized, "General"),
                         last.k)
        /\ arrayIncludes(selectedBroadCategories, "Other")

(***************************************************************************)
(* Properties of the suggestion clients (SpecSuggest, SpecSuggestTwo)      *)
(***************************************************************************)
\* the waits of a call that has issued n requests: 1000 * 2^(k-1) ms after
\* the failure of request k
waitsBefore(n) == [k \in 1..(n - 1) |-> 1000 * (2 ^ (k - 1))]

\* C5: a call of fetchSubCategories, fetchSpecificSkills or the
\* auto-categorization of an add whose first n-1 attempts fail and whose
\* attempt n (n <= 5) succeeds has issued exactly n requests and waited
\* 1000 * 2^(k-1) ms after failed attempt k, in that order; its result is
\* the parsed text of response n; the call is over, so no request follows.
C5_RetryThenSuccess ==
    [][ /\ last'.op \in {"subSuccess", "skillsSuccess", "autoSuccess"} =>
              /\ last'.requests \in 1..5
              /\ last'.waits = waitsBefore(last'.requests)
        /\ last'.op = "subSuccess" =>
              /\ suggestedSubCategories' = parseList(last'.k)
              /\ Cardinality(subTasks') = Cardinality(subTasks) - 1
        /\ last'.op = "skillsSuccess" =>
              /\ suggestedSpecificSkills' = parseList(last'.k)
              /\ Cardinality(skillTasks') = Cardinality(skillTasks) - 1
        /\ last'.op = "autoSuccess" =>
              /\ last'.b \in RespBroad /\ last'.s \in RespSub
              /\ arrayIncludes(skillList(skillsByCategory', last'.b, last'.s),
                               last'.k)
              /\ ~addTask'.active
      ]_vars

\* a fetchSubCategories call succeeded at its fifth attempt and installed
\* the parsed list
C5_Witness ==
    /\ last.op = "subSuccess"
    /\ last.requests = 5
    /\ last.waits = <<1000, 2000, 4000, 8000>>
    /\ suggestedSubCategories = <<"Music Production">>

\* C6: when all 5 attempts of fetchSubCategories or fetchSpecificSkills have
\* failed, the suggestion list the call feeds is empty, whatever it held.
C6_ExhaustedListEmpty ==
    /\ last.op = "subExhausted" => suggestedSubCategories = <<>>
    /\ last.op = "skillsExhausted" => suggestedSpecificSkills = <<>>

\* C24: when the fifth attempt of a call of fetchSubCategories, of
\* fetchSpecificSkills or of the auto-categorization of an add fails, the
\* call has issued exactly 5 requests and waited 1000, 2000, 4000 and 8000
\* ms, with no wait after the fifth failure; the call is over and its
\* loading flag is false.
C24_ExhaustedAfterFiveRequests ==
    [][ /\ last'.op \in {"subExhausted", "skillsExhausted", "autoExhausted"} =>
              /\ last'.requests = 5
              /\ last'.waits = <<1000, 2000, 4000, 8000>>
        /\ last'.op = "subExhausted" =>
              /\ Cardinality(subTasks') = Cardinality(subTasks) - 1
              /\ ~loadingSubCategories'
        /\ last'.op = "skillsExhausted" =>
              /\ Cardinality(skillTasks') = Cardinality(skillTasks) - 1
              /\ ~loadingSpecificSkills'
        /\ last'.op = "autoExhausted" =>
              /\ addTask.active /\ ~addTask'.active
              /\ ~loadingAutoCategorization'
      ]_vars

\* the fifth attempt of a fetchSpecificSkills call has just failed
C24_Witness ==
    /\ last.op = "skillsExhausted"
    /\ last.requests = 5
    /\ Len(last.waits) = 4
    /\ skillTasks = {}
    /\ ~loadingSpecificSkills

\* C25: a fetchSubCategories call is not cancelled when the active broad
\* category changes: the response of its successful attempt is written to
\* the sub-category suggestions whatever the active category is by then, so
\* the list can hold the suggestions of a category that is not the active
\* one.
C25_StaleResponseWritten ==
    [][ last'.op = "subSuccess" =>
            /\ suggestedSubCategories' = parseList(last'.k)
            /\ activeBroadCategory' = activeBroadCategory ]_vars

\* the call made for Creative & Design has just succeeded, after a backoff,
\* while Tech & Digital is the active category
C25_Witness ==
    /\ last.op = "subSuccess"
    /\ last.b = "Creative & Design"
    /\ last.requests >= 2
    /\ activeBroadCategory = "Tech & Digital"
    /\ suggestedSubCategories = <<"Music Production">>

(***************************************************************************)
(* Properties of the session (SpecSession)                                 *)
(***************************************************************************)
\* C10: the store is replaced from a read of the document once per session;
\* no later event replaces it from a read again.
C10_HydratedOnce == hydrations <= 1

(***************************************************************************)
(* Properties of the debounced save (SpecStore, SpecSave)                  *)
(***************************************************************************)
\* C11: each store mutation replaces the pending save timer by one of 500 ms
\* that closes over the mutated store, so a burst of mutations leaves one
\* timer; when it fires there is exactly one write, no timer is left, and
\* the payload is the pruned store as of the last mutation.
C11_DebouncedWrite ==
    [][ /\ last'.op = "remove" =>
              timer' = <<[delay |-> 500, skills |-> skillsByCategory']>>
        /\ last'.op = "save" =>
              /\ Len(timer) = 1
              /\ timer' = <<>>
              /\ Len(writes') = Len(writes) + 1
              /\ NoEmptyContainer(writes'[Len(writes')])
              /\ KeepsNonEmptyLists(skillsByCategory, writes'[Len(writes')])
              /\ KeepsNonEmptyLists(writes'[Len(writes')], skillsByCategory)
      ]_vars

\* two removals emptied a store of two skills before the timer fired; the
\* one write carries the empty map
C11_Witness ==
    /\ last.op = "save"
    /\ doc.skills = [b \in {"Creative & Design", "Other_Custom_Consulting"} |->
                        IF b = "Creative & Design"
                        THEN [s \in {"Music Production"} |-> <<"Songwriting">>]
                        ELSE [s \in {"General"} |-> <<"Mixing">>]]
    /\ skillsByCategory = EmptyMap
    /\ writes = <<EmptyMap>>
    /\ timer = <<>>

(***************************************************************************)
(* Properties of the listener and of the loads (SpecSession)               *)
(***************************************************************************)
\* C12: the first notification the listener delivers after a hydration is
\* not applied to the store.
C12_FirstNotificationSuppressed ==
    (last.op = "snapshot" /\ hydrations >= 1 /\ notified = 1) =>
        last.result = "suppressed"

(***************************************************************************)
(* Properties of the adds that overlap an auto-categorization (SpecAuto)   *)
(***************************************************************************)
\* C13: an add whose skill text trims to empty, whose broad category is
\* still unresolved, or whose resolved triple is already stored leaves the
\* addressed list as it was.
C13_RejectedAddKeepsStore ==
    ( /\ last.op \in {"addEmpty", "add", "autoSuccess", "autoExhausted"}
      /\ \/ last.k = ""
         \/ last.b = ""
         \/ arrayIncludes(last.before, last.k) )
    => skillList(skillsByCategory, last.b, last.s) = last.before

\* C14: every broad-category key of the store is one of the seven standard
\* categories or a namespaced key (Other_Custom_..., Other_Auto_...); the
\* bare "Other" is never a key.
C14_KeysStandardOrNamespaced ==
    \A b \in DOMAIN skillsByCategory :
        /\ isStandard(b) \/ isNamespaced(b)
        /\ b # "Other"

\* C26: when the auto-categorization of an add succeeds, a returned broad
\* category "Other" is stored under "Other_Auto_Uncategorized" with "Other"
\* selected, and any other returned broad category is the store key of the
\* skill and is in the selection after the call, once.
C26_AutoResultStoredAndSelected ==
    last.op = "autoSuccess" =>
        /\ last.b # "Other"
        /\ arrayIncludes(skillList(skillsByCategory, last.b, last.s), last.k)
        /\ IF last.b = AutoUncategorized
           THEN arrayIncludes(selectedBroadCategories, "Other")
           ELSE Count(selectedBroadCategories, last.b) = 1

\* C27: when the last attempt of an auto-categorizing add has failed, the
\* add goes on with the key "Other_Auto_Uncategorized" and the sub-category
\* "Uncategorized".
C27_FallbackSubCategory ==
    last.op = "autoExhausted" =>
        /\ last.b = AutoUncategorized
        /\ last.s = "Uncategorized"

(***************************************************************************)
(* Properties of the store edited from empty (Spec)                        *)
(***************************************************************************)
\* C15: starting from the empty store, after any sequence of adds, removals
\* and unchecks the store holds no sub-category with an empty list and no
\* broad category with an empty sub-category map; the removal that empties
\* a list deletes it, and its broad category with it, in that same step.
C15_NoEmptyContainers ==
    /\ NoEmptyContainer(skillsByCategory)
    /\ (last.op = "remove" /\ filterOut(last.before, last.k) = <<>>)
           => /\ last.b \in DOMAIN skillsByCategory => last.s \notin DOMAIN skillsByCategory[last.b]
              /\ last.b \notin DOMAIN skillsByCategory
                     \/ DOMAIN skillsByCategory[last.b] # {}

\* a removal has just taken the only skill of a list: its sub-category and
\* its broad category are gone, another broad category stays
C15_Witness ==
    /\ last.op = "remove"
    /\ last.before = <<last.k>>
    /\ last.b \notin DOMAIN skillsByCategory
    /\ DOMAIN skillsByCategory # {}

(***************************************************************************)
(* Properties of the suggestion effects (SpecSuggest)                      *)
(***************************************************************************)
\* C16: fetchSubCategories called with an empty broad category or with
\* "Other" issues no request and sets the sub-category suggestions to the
\* empty list; fetchSpecificSkills called with an empty broad category or
\* an empty sub-category issues no request and sets the skill suggestions
\* to the empty list.
C16_NoRequestWithoutCategory ==
    [][ /\ (last'.op = "fetchSub" /\ last'.b \in {"", "Other"})
            => /\ suggestedSubCategories' = <<>>
               /\ subTasks' = subTasks /\ skillTasks' = skillTasks
               /\ addTask' = addTask
               /\ loadingSubCategories' = loadingSubCategories
        /\ (last'.op = "fetchSkills" /\ (last'.b = "" \/ last'.s = ""))
            => /\ suggestedSpecificSkills' = <<>>
               /\ subTasks' = subTasks /\ skillTasks' = skillTasks
               /\ addTask' = addTask
               /\ loadingSpecificSkills' = loadingSpecificSkills ]_vars

\* fetchSubCategories has just run for "Other": no call is in flight and the
\* suggestions are empty
C16_Witness ==
    /\ last.op = "fetchSub"
    /\ last.b = "Other"
    /\ activeBroadCategory = "Other"
    /\ subTasks = {}
    /\ suggestedSubCategories = <<>>

\* C18: no step of a suggestion call (the call and its first request, a
\* response, a failure, the end of a backoff wait, the exhaustion of the
\* attempts) changes the store.  The step that ends the auto-categorization
\* of an add is followed at once by the rest of that add: there the store
\* is the one before the step, or that one with the skill appended by the
\* add.
C18_SuggestionsKeepStore ==
    [][ /\ last'.op \in {"fetchSub", "subSuccess", "subRetry", "subFetch",
                         "subExhausted", "fetchSkills", "skillsSuccess",
                         "skillsRetry", "skillsFetch", "skillsExhausted",
                         "addAuto", "autoRetry", "autoFetch"}
            => skillsByCategory' = skillsByCategory
        /\ last'.op \in {"autoSuccess", "autoExhausted"}
            => \/ skillsByCategory' = skillsByCategory
               \/ skillsByCategory' =
                      appendSkill(skillsByCategory, last'.b, last'.s, last'.k) ]_vars

\* a sub-category response has just been taken while the store holds a skill
C18_Witness ==
    /\ last.op = "subSuccess"
    /\ suggestedSubCategories = <<"Music Production">>
    /\ skillsByCategory # EmptyMap

(***************************************************************************)
(* Properties of the writes (SpecSave)                                     *)
(***************************************************************************)
\* C19: after a write fails the status is "Save failed!" and it is cleared
\* 2000 ms after the failure, that is by the timer the failed write set,
\* not by one that was pending before.
C19_FailedStatusClearedByOwnTimer ==
    (last.op = "clearStatus" /\ last.k = "Save failed!") => last.result = "own"

(***************************************************************************)
(* Properties of a session that signs in (SpecSession)                     *)
(***************************************************************************)
\* C17: a load that finds the document sets the store to the stored value
\* as it is, empty lists and empty sub-category maps included, and only
\* adds to the selection: every category selected before it is selected
\* after it, and what it adds is "Other" or a key of the stored value.
C17_HydrateVerbatim ==
    [][ (last'.op = "load" /\ doc.exists)
            => /\ skillsByCategory' = doc.skills
               /\ \A i \in 1..Len(selectedBroadCategories) :
                      arrayIncludes(selectedBroadCategories', selectedBroadCategories[i])
               /\ \A i \in 1..Len(selectedBroadCategories') :
                      \/ arrayIncludes(selectedBroadCategories, selectedBroadCategories'[i])
                      \/ selectedBroadCategories'[i] \in DOMAIN doc.skills \cup {"Other"} ]_vars

\* a second load has just set the store to a stored value with an empty
\* list and an empty sub-category map; the selection it met was not empty
C17_Witness ==
    /\ last.op = "load"
    /\ doc.exists
    /\ hydrations >= 2
    /\ skillsByCategory = doc.skills
    /\ \E b \in DOMAIN skillsByCategory : DOMAIN skillsByCategory[b] = {}
    /\ \E b \in DOMAIN skillsByCategory : \E s \in DOMAIN skillsByCategory[b] :
           skillsByCategory[b][s] = <<>>
    /\ selectedBroadCategories = <<"Creative & Design", "Business & Professional">>

\* C20: when a removal empties a namespaced broad category while "Other"
\* is selected and another namespaced key still holds skills, "Other" stays
\* selected.
C20_OtherKeptWhileNamespacedLeft ==
    ( /\ last.op = "remove"
      /\ isNamespaced(last.b)
      /\ last.b \notin DOMAIN skillsByCategory
      /\ last.other
      /\ \E b \in DOMAIN skillsByCategory :
             /\ isNamespaced(b)
             /\ \E s \in DOMAIN skillsByCategory[b] : Len(skillsByCategory[b][s]) > 0 )
    => arrayIncludes(selectedBroadCategories, "Other")

(***************************************************************************)
(* Properties of removals from lists with repeated skills (SpecRepeat)     *)
(***************************************************************************)
\* the list xs without its first element equal to x
RECURSIVE removeFirst(_, _)
removeFirst(xs, x) ==
    IF xs = <<>> THEN <<>>
    ELSE IF Head(xs) = x THEN Tail(xs)
    ELSE <<Head(xs)>> \o removeFirst(Tail(xs), x)

\* C21: a removal takes exactly one occurrence of the skill, the first, out
\* of the addressed list and keeps the other elements in their order; the
\* later occurrences of a repeated skill remain.
C21_RemovesFirstOccurrence ==
    last.op = "remove" =>
        skillList(skillsByCategory, last.b, last.s) = removeFirst(last.before, last.k)

(***************************************************************************)
(* Properties of the keys an uncheck deletes (SpecQualifier)               *)
(***************************************************************************)
\* String.prototype.endsWith
endsWith(s, p) == Len(s) >= Len(p) /\ SubSeq(s, Len(s) - Len(p) + 1, Len(s)) = p

\* key is a custom or auto key whose qualifier is exactly value
hasQualifier(key, value) == isNamespaced(key) /\ endsWith(key, "__" \o value)

\* C22: unchecking broad category B leaves in the store every key other
\* than B and the namespaced keys whose qualifier is exactly B; a key whose
\* name contains "__B" inside a longer qualifier stays.
C22_UncheckKeepsOtherKeys ==
    last.op = "uncheck" =>
        \A key \in last.keys :
            (key # last.b /\ ~hasQualifier(key, last.b))
                => key \in DOMAIN skillsByCategory

(***************************************************************************)
(* Properties of the loads and the writes of a signed-in session           *)
(***************************************************************************)
\* the elements of the array xs
elements(xs) == {xs[i] : i \in 1..Len(xs)}

\* C23: the categories a load adds to the selection are exactly the standard
\* categories among the keys of the stored value, plus "Other" if and only
\* if one of the keys is a custom or auto key; nothing else is added.
C23_HydrateAddsStandardAndOther ==
    [][ (last'.op = "load" /\ doc.exists)
            => elements(selectedBroadCategories') \ elements(selectedBroadCategories)
                 = ( {b \in DOMAIN doc.skills : isStandard(b)}
                     \cup (IF \E b \in DOMAIN doc.skills : isNamespaced(b)
                           THEN {"Other"} ELSE {}) )
                   \ elements(selectedBroadCategories) ]_vars

\* C28: when a write succeeds, the skills of the document are the written
\* snapshot: a read returns a map equal to it, and a broad category or a
\* sub-category that was removed from the store before the write is not
\* in the document.
C28_WriteThenReadReturnsSnapshot ==
    [][ last'.op = "saved" => doc'.skills = Head(writes) ]_vars

\* C29: a change a removal or an uncheck has just made to the store, whose
\* debounced write is still pending, is not overwritten by a read of the
\* document: the load that ends next leaves the store as it is.
C29_ReadKeepsUnwrittenMutation ==
    [][ ( /\ last.op \in {"remove", "uncheck"}
          /\ timer # <<>>
          /\ Head(timer).skills = skillsByCategory
          /\ last'.op = "load" )
        => skillsByCategory' = skillsByCategory ]_vars

(***************************************************************************)
(* Properties of the write/notify cycle (SpecCycle)                        *)
(***************************************************************************)
\* C30: once the user has stopped, only finitely many writes are issued:
\* from some point on no save is scheduled and no write is in flight.
C30_WritesQuiesce == <>[](timer = <<>> /\ writes = <<>>)

=============================================================================
